---- MODULE Spec2Model ----
(***************************************************************************)
(* The customers page (src/pages/index.tsx): the create-customer form      *)
(* controller of the Home component, its create requests in flight, and    *)
(* the list revalidation it triggers.                                      *)
(*                                                                         *)
(* A string is a sequence of one-character strings, so that the regular    *)
(* expressions of validate() are computed character by character.  A       *)
(* message shown to the user is kept as a TLA+ string.  A JavaScript value *)
(* that may be null or undefined is a sequence of length 0 or 1.           *)
(***************************************************************************)
EXTENDS Naturals, Sequences, FiniteSets

\* The most create requests the model lets handleSubmit issue in one run.
MaxSubmits == 2

---------------------------------------------------------------------------
(* Data *)

Fields == {"firstName", "lastName", "email", "businessName"}

\* The initial value of newCustomer, and the value handleClose resets it to.
EmptyDraft == [f \in Fields |-> << >>]

\* The initial value of errors: {}.
NoErrors == [f \in {} |-> ""]

\* submitError === null, and a submitError holding message m.
Null == << >>
Some(m) == << m >>

Upper == {"A", "B", "C", "D", "E", "F", "G", "H", "I", "J", "K", "L", "M",
          "N", "O", "P", "Q", "R", "S", "T", "U", "V", "W", "X", "Y", "Z"}
Lower == {"a", "b", "c", "d", "e", "f", "g", "h", "i", "j", "k", "l", "m",
          "n", "o", "p", "q", "r", "s", "t", "u", "v", "w", "x", "y", "z"}

\* The characters \s matches, among those the model types.
Whitespace == {" ", "\t", "\n"}

\* The values the model types into each field.
FieldValues(f) ==
  CASE f = "firstName"    -> { << >>, <<"J">> }
    [] f = "lastName"     -> { << >>, <<"D">> }
    [] f = "email"        -> { << >>, <<"j", "@", "d", ".", "c">> }
    [] f = "businessName" -> { << >>, <<"A">> }

---------------------------------------------------------------------------
(* validate() *)

\* The name pattern as it would be without its anchors: /[A-Za-z]+/.test(s)
lettersSomewhere(s) == \E i \in 1..Len(s) : s[i] \in Upper \cup Lower

\* /^[A-Za-z]+$/.test(s)
lettersOnlyRegex(s) ==
  /\ Len(s) >= 1
  /\ \A i \in 1..Len(s) : s[i] \in Upper \cup Lower

\* The email pattern as it would be with [^\s] for [^\s@]: further "@" pass.
emailRegexManyAts(s) ==
  \E i \in 1..Len(s) : \E j \in 1..Len(s) :
    /\ s[i] = "@"
    /\ s[j] = "."
    /\ 1 < i
    /\ i + 1 < j
    /\ j < Len(s)
    /\ \A k \in 1..Len(s) : s[k] \notin Whitespace

\* /^[^\s@]+@[^\s@]+\.[^\s@]+$/.test(s): the "@" at i, the literal dot at j.
emailRegex(s) ==
  \E i \in 1..Len(s) : \E j \in 1..Len(s) :
    /\ s[i] = "@"
    /\ s[j] = "."
    /\ 1 < i
    /\ i + 1 < j
    /\ j < Len(s)
    /\ \A k \in (1..Len(s)) \ {i} : s[k] \notin Whitespace \cup {"@"}

\* validate() as it would be with the pattern tested before the emptiness.
fieldErrorFormatFirst(c, f) ==
  CASE f = "firstName" ->
         IF ~lettersOnlyRegex(c.firstName)
         THEN "First name should contain only letters"
         ELSE IF c.firstName = << >> THEN "First name is required" ELSE ""
    [] f = "lastName" ->
         IF ~lettersOnlyRegex(c.lastName)
         THEN "Last name should contain only letters"
         ELSE IF c.lastName = << >> THEN "Last name is required" ELSE ""
    [] f = "email" ->
         IF ~emailRegex(c.email)
         THEN "Email should be valid (e.g., user@example.com)"
         ELSE IF c.email = << >> THEN "Email is required" ELSE ""
    [] OTHER -> ""

\* The message validate() stores for field f of draft c; "" when it stores none.
fieldError(c, f) ==
  CASE f = "firstName" ->
         IF c.firstName = << >> THEN "First name is required"
         ELSE IF ~lettersOnlyRegex(c.firstName)
              THEN "First name should contain only letters"
              ELSE ""
    [] f = "lastName" ->
         IF c.lastName = << >> THEN "Last name is required"
         ELSE IF ~lettersOnlyRegex(c.lastName)
              THEN "Last name should contain only letters"
              ELSE ""
    [] f = "email" ->
         IF c.email = << >> THEN "Email is required"
         ELSE IF ~emailRegex(c.email)
              THEN "Email should be valid (e.g., user@example.com)"
              ELSE ""
    [] OTHER -> ""

\* The newErrors object validate() builds and hands to setErrors.
newErrors(c) ==
  [f \in {g \in {"firstName", "lastName", "email"} : fieldError(c, g) # ""}
     |-> fieldError(c, f)]

\* validate() as it would be with the comparison of its return slipped to >= 0.
validateNeverFails(c) == Cardinality(DOMAIN newErrors(c)) >= 0

\* The value validate() returns: Object.keys(newErrors).length === 0.
validate(c) == DOMAIN newErrors(c) = {}

---------------------------------------------------------------------------
(* State *)

VARIABLES
  open,          \* useState(false): whether the dialog is open
  newCustomer,   \* the Draft: a string for each of Fields
  errors,        \* Record<string, string>: field name -> message
  submitError,   \* string | null
  isSubmitting,  \* useState(false)
  requests,      \* the create requests handleSubmit is still awaiting
  created,       \* how many create requests were issued
  succeeded,     \* how many create requests resolved with response.ok
  mutateCalls,   \* how many times mutate() was called
  swr,           \* what useSWR exposes of the customer list: data and error
  last           \* the handler or continuation that ran last, and its inputs

form == <<open, newCustomer, errors, submitError, isSubmitting>>
vars == <<open, newCustomer, errors, submitError, isSubmitting,
          requests, created, succeeded, mutateCalls, swr, last>>

\* The bodies a non-success response may carry: an object with a message, with
\* an empty message, without one; text that is not JSON.
ErrorBodies ==
  { [json |-> "object",  message |-> <<"Email already exists">>],
    [json |-> "object",  message |-> <<"">>],
    [json |-> "object",  message |-> << >>],
    [json |-> "invalid", message |-> << >>] }

\* The values fetch() may reject with: the TypeError of a network failure, and
\* a value that is no Error and carries no message.
Rejections ==
  { [isError |-> TRUE,  message |-> "Failed to fetch"],
    [isError |-> FALSE, message |-> ""] }

\* What response.json() rejects with on a body that is not JSON.
SyntaxError == [isError |-> TRUE, message |-> "Unexpected token < in JSON"]

\* What a continuation's step records of the request r it was awaiting.
Seen(r) == << [id |-> r.id, closed |-> r.closed, reopened |-> r.reopened] >>

\* The record of the step taken last: the handler or continuation, the field
\* and the value handleChange was called with, the request a continuation was awaiting (as it
\* was when the continuation ran), the response body and the value thrown, and
\* the calls the step made, in order.
Step(op, name, value, req, body, thrown, calls) ==
  [op |-> op, name |-> name, value |-> value, req |-> req,
   body |-> body, thrown |-> thrown, calls |-> calls]

Init ==
  /\ open = FALSE
  /\ newCustomer = EmptyDraft
  /\ errors = NoErrors
  /\ submitError = Null
  /\ isSubmitting = FALSE
  /\ requests = {}
  /\ created = 0
  /\ succeeded = 0
  /\ mutateCalls = 0
  /\ swr = [data |-> Null, error |-> Null]
  /\ last = Step("mount", "", << >>, << >>, << >>, << >>, << >>)

---------------------------------------------------------------------------
(* The handlers *)

\* const handleOpen = () => setOpen(true). A request in flight that saw the
\* dialog closed now has seen it reopened.
handleOpen ==
  /\ open' = TRUE
  /\ requests' = {[r EXCEPT !.reopened = r.closed] : r \in requests}
  /\ UNCHANGED <<newCustomer, errors, submitError>>

\* handleClose as it would be without setSubmitError(null).
handleCloseKeepsError(pending) ==
  /\ open' = FALSE
  /\ newCustomer' = EmptyDraft
  /\ errors' = NoErrors
  /\ UNCHANGED submitError
  /\ requests' = {[r EXCEPT !.closed = TRUE] : r \in pending}

\* handleClose as it would be if closing aborted the requests in flight.
handleCloseCancels(pending) ==
  /\ open' = FALSE
  /\ newCustomer' = EmptyDraft
  /\ errors' = NoErrors
  /\ submitError' = Null
  /\ requests' = {}

\* handleClose as it would be if it toggled the dialog: setOpen(!open).
handleCloseToggles(pending) ==
  /\ open' = ~open
  /\ newCustomer' = EmptyDraft
  /\ errors' = NoErrors
  /\ submitError' = Null
  /\ requests' = {[r EXCEPT !.closed = TRUE] : r \in pending}

\* handleClose, called with `pending` in flight: each of these requests has
\* now seen the dialog closed.
handleClose(pending) ==
  /\ open' = FALSE
  /\ newCustomer' = EmptyDraft
  /\ errors' = NoErrors
  /\ submitError' = Null
  /\ requests' = {[r EXCEPT !.closed = TRUE] : r \in pending}

\* if (errors[name]): the entry exists and is not the empty string.
hasError(e, name) == name \in DOMAIN e /\ e[name] # ""

\* handleChange as it would be if it ran the whole validation on each edit.
handleChangeRevalidates(name, value) ==
  /\ newCustomer' = [newCustomer EXCEPT ![name] = value]
  /\ errors' = newErrors([newCustomer EXCEPT ![name] = value])
  /\ UNCHANGED <<open, submitError, isSubmitting, requests>>

\* handleChange, with e.target = {name, value}.
handleChange(name, value) ==
  /\ newCustomer' = [newCustomer EXCEPT ![name] = value]
  /\ errors' = IF hasError(errors, name)
               THEN [g \in DOMAIN errors \cup {name} |->
                       IF g = name THEN "" ELSE errors[g]]
               ELSE errors
  /\ UNCHANGED <<open, submitError, isSubmitting, requests>>

\* handleSubmit as it would be if validate() merged newErrors into the map:
\* setErrors(prev => ({...prev, ...newErrors})).
handleSubmitMergesErrors ==
  /\ errors' = [f \in DOMAIN errors \cup DOMAIN newErrors(newCustomer) |->
                  IF f \in DOMAIN newErrors(newCustomer)
                  THEN newErrors(newCustomer)[f] ELSE errors[f]]
  /\ IF ~validate(newCustomer)
     THEN UNCHANGED <<isSubmitting, submitError, requests, created>>
     ELSE /\ created < MaxSubmits
          /\ isSubmitting' = TRUE
          /\ submitError' = Null
          /\ created' = created + 1
          /\ requests' = requests \cup
               {[id |-> created + 1, body |-> newCustomer, stage |-> "fetch",
                 closed |-> FALSE, reopened |-> FALSE]}
  /\ UNCHANGED <<open, newCustomer>>

\* handleSubmit up to its first await: validate(), then the create request
\* whose body is JSON.stringify(newCustomer).
handleSubmit ==
  /\ errors' = newErrors(newCustomer)
  /\ IF ~validate(newCustomer)
     THEN UNCHANGED <<isSubmitting, submitError, requests, created>>
     ELSE /\ created < MaxSubmits
          /\ isSubmitting' = TRUE
          /\ submitError' = Null
          /\ created' = created + 1
          /\ requests' = requests \cup
               {[id |-> created + 1, body |-> newCustomer, stage |-> "fetch",
                 closed |-> FALSE, reopened |-> FALSE]}
  /\ UNCHANGED <<open, newCustomer>>

\* mutate(): the revalidation. The call returns at once: the list fetch it
\* makes useSWR issue is not awaited.
mutate == mutateCalls' = mutateCalls + 1

\* errorData.message || 'Failed to create customer'
messageOr(errorData) ==
  IF errorData.message = << >> \/ errorData.message = <<"">>
  THEN "Failed to create customer"
  ELSE errorData.message[1]

\* throw new Error(errorData.message || ...): the value that reaches catch.
statusError(errorData) ==
  [isError |-> TRUE, message |-> messageOr(errorData)]

\* The catch block as it would be if it always showed the generic message.
catchMessageGeneric(err) == "An unknown error occurred"

\* err instanceof Error ? err.message : 'An unknown error occurred'
catchMessage(err) ==
  IF err.isError THEN err.message ELSE "An unknown error occurred"

\* The catch block as it would be if it revalidated the list as well.
catchFinallyRevalidates(err) ==
  /\ submitError' = Some(catchMessage(err))
  /\ isSubmitting' = FALSE
  /\ mutate
  /\ UNCHANGED <<open, newCustomer, errors>>

\* catch (err) { setSubmitError(...) } finally { setIsSubmitting(false) }
catchFinally(err) ==
  /\ submitError' = Some(catchMessage(err))
  /\ isSubmitting' = FALSE
  /\ UNCHANGED <<open, newCustomer, errors, mutateCalls>>

\* The success path as it would be without the call of handleClose.
onSuccessStaysOpen(r) ==
  /\ mutate
  /\ requests' = requests \ {r}
  /\ isSubmitting' = FALSE
  /\ UNCHANGED <<open, newCustomer, errors, submitError>>

\* The rest of the try block of the handler awaiting r when response.ok, then
\* finally.
onSuccess(r) ==
  /\ mutate
  /\ handleClose(requests \ {r})
  /\ isSubmitting' = FALSE

---------------------------------------------------------------------------
(* The steps *)

Open ==
  /\ handleOpen
  /\ last' = Step("open", "", << >>, << >>, << >>, << >>, <<"setOpen">>)
  /\ UNCHANGED <<isSubmitting, created, succeeded, mutateCalls>>
  /\ UNCHANGED swr

Close ==
  /\ handleClose(requests)
  /\ last' = Step("close", "", << >>, << >>, << >>, << >>, <<"handleClose">>)
  /\ UNCHANGED <<isSubmitting, created, succeeded, mutateCalls>>
  /\ UNCHANGED swr

Change ==
  \E name \in Fields : \E value \in FieldValues(name) :
    /\ handleChange(name, value)
    /\ last' = Step("change", name, value, << >>, << >>, << >>,
                    <<"setNewCustomer">>)
    /\ UNCHANGED <<created, succeeded, mutateCalls>>
    /\ UNCHANGED swr

Submit ==
  /\ handleSubmit
  /\ last' = Step("submit", "", << >>, << >>, << >>, << >>,
                  IF validate(newCustomer) THEN <<"validate", "fetch">>
                  ELSE <<"validate">>)
  /\ UNCHANGED <<succeeded, mutateCalls>>
  /\ UNCHANGED swr

\* await fetch(...) resolves with response.ok.
FetchResolvesOk ==
  \E r \in requests :
    /\ r.stage = "fetch"
    /\ onSuccess(r)
    /\ succeeded' = succeeded + 1
    /\ last' = Step("success", "", << >>, Seen(r), << >>, << >>,
                    <<"mutate", "handleClose", "setIsSubmitting">>)
    /\ UNCHANGED created
    /\ UNCHANGED swr

\* await fetch(...) resolves with !response.ok: the handler awaits
\* response.json().
FetchResolvesNotOk ==
  \E r \in requests :
    /\ r.stage = "fetch"
    /\ requests' = (requests \ {r}) \cup {[r EXCEPT !.stage = "json"]}
    /\ last' = Step("status", "", << >>, Seen(r), << >>, << >>, <<"json">>)
    /\ UNCHANGED <<form, created, succeeded, mutateCalls>>
    /\ UNCHANGED swr

\* await fetch(...) rejects.
FetchRejects ==
  \E r \in requests : \E err \in Rejections :
    /\ r.stage = "fetch"
    /\ catchFinally(err)
    /\ requests' = requests \ {r}
    /\ last' = Step("rejected", "", << >>, Seen(r), << >>, <<err>>,
                    <<"setSubmitError", "setIsSubmitting">>)
    /\ UNCHANGED <<created, succeeded>>
    /\ UNCHANGED swr

\* await response.json() settles: it rejects on a body that is not JSON, and
\* otherwise the handler throws the Error built from errorData.
JsonSettles ==
  \E r \in requests : \E errorData \in ErrorBodies :
    /\ r.stage = "json"
    /\ LET err == IF errorData.json = "invalid" THEN SyntaxError
                  ELSE statusError(errorData) IN
       /\ catchFinally(err)
       /\ last' = Step(IF errorData.json = "object" THEN "failed" ELSE "threw",
                       "", << >>, Seen(r), <<errorData>>, <<err>>,
                       <<"setSubmitError", "setIsSubmitting">>)
    /\ requests' = requests \ {r}
    /\ UNCHANGED <<created, succeeded>>
    /\ UNCHANGED swr

Next ==
  \/ Open
  \/ Close
  \/ Change
  \/ Submit
  \/ FetchResolvesOk
  \/ FetchResolvesNotOk
  \/ FetchRejects
  \/ JsonSettles

Spec == Init /\ [][Next]_vars

---------------------------------------------------------------------------
(* validate() on typed input: the Drafts a user may have typed when the form
   is submitted *)

\* The longest first or last name, and the longest email, typed here.
MaxNameLen == 3
MaxEmailLen == 5

\* Every string of at most n characters of alphabet A.
Strings(A, n) == UNION {[1..k -> A] : k \in 0..n}

\* Names are typed from a lower-case and an upper-case letter, a digit, a
\* space and a symbol.
NameInputs == Strings({"a", "Z", "1", " ", "-"}, MaxNameLen)

\* "user@example.com", "user@example" and "user example.com".
UserAtExampleCom ==
  <<"u", "s", "e", "r", "@", "e", "x", "a", "m", "p", "l", "e", ".", "c", "o", "m">>
UserAtExample ==
  <<"u", "s", "e", "r", "@", "e", "x", "a", "m", "p", "l", "e">>
UserExampleCom ==
  <<"u", "s", "e", "r", " ", "e", "x", "a", "m", "p", "l", "e", ".", "c", "o", "m">>

\* Emails are typed from a letter, "@", "." and a space; and the three
\* addresses above.
EmailInputs ==
  Strings({"a", "@", ".", " "}, MaxEmailLen)
    \cup {UserAtExampleCom, UserAtExample, UserExampleCom}

\* The Drafts submitted: one of the three validated fields ranges over its
\* inputs while the others are empty, valid or malformed.
DraftInputs ==
  LET fewNames  == { << >>, <<"D">>, <<"D", "4">> }
      fewEmails == { << >>, <<"j", "@", "d", ".", "c">>, <<"j", "@", "d">> }
      business  == { << >>, <<"A", " ", "1">> }
      draft(fn, ln, em, bn) ==
        [firstName |-> fn, lastName |-> ln, email |-> em, businessName |-> bn]
  IN  {draft(fn, ln, em, bn) :
         fn \in NameInputs, ln \in fewNames, em \in fewEmails, bn \in business}
      \cup
      {draft(fn, ln, em, bn) :
         fn \in fewNames, ln \in NameInputs, em \in fewEmails, bn \in business}
      \cup
      {draft(fn, ln, em, bn) :
         fn \in fewNames, ln \in fewNames, em \in EmailInputs, bn \in business}

\* The errors map left by a submit of the empty Draft followed by the typing
\* of the fields of c that are not empty: handleChange has blanked their
\* entries.
StaleErrors(c) ==
  [f \in {"firstName", "lastName", "email"} |->
     IF c[f] = << >> THEN fieldError(EmptyDraft, f) ELSE ""]

\* The open dialog holding a typed Draft, before or after an earlier rejected
\* submit.
InitValidate ==
  /\ open = TRUE
  /\ newCustomer \in DraftInputs
  /\ errors \in {NoErrors, StaleErrors(newCustomer)}
  /\ submitError = Null
  /\ isSubmitting = FALSE
  /\ requests = {}
  /\ created = 0
  /\ succeeded = 0
  /\ mutateCalls = 0
  /\ swr = [data |-> Null, error |-> Null]
  /\ last = Step("mount", "", << >>, << >>, << >>, << >>, << >>)

\* The form is submitted.
SpecValidate == InitValidate /\ [][Submit]_vars

---------------------------------------------------------------------------
(* What the specification says of a Draft, stated without validate() *)

\* A name passes: it is not empty and holds only the letters A-Z and a-z.
NameOk(s) == s # << >> /\ {s[i] : i \in 1..Len(s)} \subseteq Upper \cup Lower

\* One or more characters that are neither whitespace nor "@".
Plain(s) == s # << >> /\ \A i \in 1..Len(s) : s[i] \notin Whitespace \cup {"@"}

\* An email passes: plain characters, "@", plain characters, ".", plain
\* characters.
EmailOk(s) ==
  \E i \in 1..Len(s) : \E j \in 1..Len(s) :
    /\ i < j
    /\ s[i] = "@"
    /\ s[j] = "."
    /\ Plain(SubSeq(s, 1, i - 1))
    /\ Plain(SubSeq(s, i + 1, j - 1))
    /\ Plain(SubSeq(s, j + 1, Len(s)))

\* The required fields of draft c that fail their rule.
Failing(c) ==
  {f \in {"firstName", "lastName", "email"} :
     IF f = "email" THEN ~EmailOk(c[f]) ELSE ~NameOk(c[f])}

DraftOk(c) == Failing(c) = {}

\* The fields the errors map e shows a message for.
Shown(e) == {f \in DOMAIN e : e[f] # ""}

\* The state close() leaves the dialog in.
Reset(o, c, e, se) ==
  o = FALSE /\ c = EmptyDraft /\ Shown(e) = {} /\ DOMAIN e = {} /\ se = Null

\* The position of call x in the sequence of calls cs; 0 when it is not made.
Position(cs, x) ==
  IF \E i \in 1..Len(cs) : cs[i] = x
  THEN CHOOSE i \in 1..Len(cs) : cs[i] = x
  ELSE 0

---------------------------------------------------------------------------
(* The claims *)

\* C1: a submit() called while an earlier create request has not resolved is
\* a no-op: it issues no second create request and changes no controller
\* state, so at most one create request is ever in flight.
C1_SecondSubmitIsNoOp ==
  /\ [][(last'.op = "submit" /\ requests # {}) =>
          UNCHANGED <<form, requests, created>>]_vars
  /\ [](Cardinality(requests) <= 1)

\* C2: a submit() of a Draft that fails validation issues no create request,
\* leaves the dialog as it is and does not enter Submitting, and the errors map
\* shows exactly the failing fields; so every create request in flight carries
\* a Draft whose firstName, lastName and email pass validation.
C2_InvalidSubmitSendsNothing ==
  /\ [][(last'.op = "submit" /\ ~DraftOk(newCustomer)) =>
          /\ requests' = requests
          /\ created' = created
          /\ open' = open
          /\ isSubmitting' = isSubmitting
          /\ Shown(errors') = Failing(newCustomer)]_vars
  /\ [](\A r \in requests : DraftOk(r.body))

\* C2's case: after a create request that was issued and has failed, a submit
\* was rejected in the open dialog, the email error among those shown.
C2_Witness ==
  /\ last.op = "submit"
  /\ last.calls = <<"validate">>
  /\ open
  /\ ~isSubmitting
  /\ "email" \in Shown(errors)
  /\ created = 1
  /\ requests = {}

\* C3: a submit() of a valid Draft issues one create request whose body is the
\* Draft as it was at the submit; when a create request resolves with success,
\* the revalidation is triggered, before the close, and the controller is
\* closed with the Draft all-empty, no validation error and no submit error.
C3_SuccessRevalidatesThenCloses ==
  /\ [][(last'.op = "submit" /\ DraftOk(newCustomer)) =>
          /\ Cardinality(requests' \ requests) = 1
          /\ \A r \in requests' \ requests : r.body = newCustomer]_vars
  /\ [][last'.op = "success" =>
          /\ mutateCalls' = mutateCalls + 1
          /\ 0 < Position(last'.calls, "mutate")
          /\ Position(last'.calls, "mutate") < Position(last'.calls, "handleClose")
          /\ Reset(open', newCustomer', errors', submitError')
          /\ isSubmitting' = FALSE]_vars

\* C3's case: the first create request has just resolved with success.
C3_Witness ==
  /\ last.op = "success"
  /\ mutateCalls = 1
  /\ created = 1
  /\ requests = {}
  /\ Reset(open, newCustomer, errors, submitError)

\* The submit-level error the specification gives for a non-success response
\* with body b: its message when it has one, else a generic fallback.
StatusMessage(b) ==
  IF b.message = << >> \/ b.message = <<"">>
  THEN "Failed to create customer"
  ELSE b.message[1]

\* C4: when a create request resolves with a non-success status, the submit
\* error is the body's message or else the fallback, the dialog stays as it
\* is, Submitting is left, the Draft is unchanged, no validation error is
\* shown and no revalidation is triggered.
C4_FailedStatusKeepsDialog ==
  [][last'.op = "failed" =>
       /\ submitError' = Some(StatusMessage(last'.body[1]))
       /\ open' = open
       /\ isSubmitting' = FALSE
       /\ newCustomer' = newCustomer
       /\ Shown(errors') = {}
       /\ mutateCalls' = mutateCalls]_vars

\* The generic messages of the page.
Fallbacks == {"Failed to create customer", "An unknown error occurred"}

\* C5: when the create request fails by a thrown network or body-parse
\* failure, the submit error is the thrown error's message, or a generic
\* fallback when the failure carries none; the dialog stays as it is,
\* Submitting is left and the Draft is unchanged.
C5_ThrownFailureKeepsDialog ==
  [][last'.op \in {"rejected", "threw"} =>
       /\ IF last'.thrown[1].message # ""
          THEN submitError' = Some(last'.thrown[1].message)
          ELSE submitError' # Null /\ submitError'[1] \in Fallbacks
       /\ open' = open
       /\ isSubmitting' = FALSE
       /\ newCustomer' = newCustomer]_vars

\* C5's case: the body of a non-success response was not JSON, and the open
\* dialog shows the parser's message over the Draft as typed.
C5_Witness ==
  /\ last.op = "threw"
  /\ open
  /\ ~isSubmitting
  /\ DraftOk(newCustomer)
  /\ submitError = Some(SyntaxError.message)

\* C6: close() can be called in every state, and it leaves the dialog closed,
\* the Draft all-empty, the errors map empty and the submit error null.
C6_CloseResets ==
  /\ ENABLED Close
  /\ last.op = "close" => Reset(open, newCustomer, errors, submitError)

\* C6's case: close() was called while Submitting, a request in flight.
C6_Witness ==
  /\ last.op = "close"
  /\ isSubmitting
  /\ requests # {}
  /\ Reset(open, newCustomer, errors, submitError)

\* The ids and stages of the requests in flight.
InFlight(rs) == {<<r.id, r.stage, r.body>> : r \in rs}

\* C7: close() does not cancel a create request in flight; when a request that
\* saw the dialog closed resolves with success, revalidation is triggered once
\* for it, the request is over, and the controller is closed and reset.
C7_CloseDoesNotCancel ==
  /\ [][last'.op = "close" => InFlight(requests') = InFlight(requests)]_vars
  /\ [][(last'.op = "success" /\ last'.req[1].closed) =>
          /\ \E r \in requests : r.id = last'.req[1].id /\ r.closed
          /\ \A r \in requests' : r.id # last'.req[1].id
          /\ mutateCalls' = mutateCalls + 1
          /\ Reset(open', newCustomer', errors', submitError')
          /\ isSubmitting' = FALSE]_vars

\* C7's case: a request that was in flight when close() was called has just
\* resolved with success.
C7_Witness ==
  /\ last.op = "success"
  /\ last.req[1].closed
  /\ ~last.req[1].reopened
  /\ mutateCalls = 1
  /\ Reset(open, newCustomer, errors, submitError)

\* C8: the revalidations triggered are as many as the create requests that
\* resolved with success: mutate() is called once in the step that handles a
\* success, which ends with Submitting left, and in no other step.
C8_OneRevalidationPerSuccess ==
  /\ [](mutateCalls = succeeded)
  /\ [][mutateCalls' # mutateCalls => last'.op = "success"]_vars
  /\ [][last'.op = "success" =>
          /\ succeeded' = succeeded + 1
          /\ mutateCalls' = mutateCalls + 1
          /\ isSubmitting' = FALSE]_vars
  /\ [][last'.op # "success" => succeeded' = succeeded]_vars

\* C8's case: two create requests were issued; one resolved with success and
\* the other has just failed.
C8_Witness ==
  /\ created = 2
  /\ succeeded = 1
  /\ mutateCalls = 1
  /\ requests = {}
  /\ last.op \in {"failed", "rejected", "threw"}

\* C9: open() takes the controller from Closed to Editing with the Draft
\* all-empty.
C9_OpenGivesEmptyDraft ==
  [][(last'.op = "open" /\ ~open) => (open' /\ newCustomer' = EmptyDraft)]_vars

\* The entry of field f in errors map e; "" when it has none.
Entry(e, f) == IF f \in DOMAIN e THEN e[f] ELSE ""

\* C10: a field change sets the named field of the Draft to the value and
\* leaves the other fields; the field shows no error afterwards, and the
\* errors of the other fields, the submit error, the open flag and the
\* Submitting flag are unchanged.
C10_ChangeTouchesOneField ==
  [][last'.op = "change" =>
       /\ \A f \in Fields \ {last'.name} : newCustomer'[f] = newCustomer[f]
       /\ newCustomer'[last'.name] = last'.value
       /\ last'.name \notin Shown(errors')
       /\ \A f \in Fields \ {last'.name} : Entry(errors', f) = Entry(errors, f)
       /\ UNCHANGED <<submitError, open, isSubmitting>>]_vars

\* C10's case: the first name and the email showed an error, and the first
\* name was then edited back to empty: its error is cleared though it fails
\* validation, and the email's error is still shown.
C10_Witness ==
  /\ last.op = "change"
  /\ last.name = "firstName"
  /\ newCustomer.firstName = << >>
  /\ "firstName" \in DOMAIN errors
  /\ errors.firstName = ""
  /\ "email" \in Shown(errors)

---------------------------------------------------------------------------
(* The claims about validate(), on the typed Drafts of SpecValidate *)

RequiredMessage(f) ==
  CASE f = "firstName" -> "First name is required"
    [] f = "lastName"  -> "Last name is required"
    [] f = "email"     -> "Email is required"

OnlyLettersMessage(f) ==
  CASE f = "firstName" -> "First name should contain only letters"
    [] f = "lastName"  -> "Last name should contain only letters"

ValidEmailMessage == "Email should be valid (e.g., user@example.com)"

\* C11: validate() returns true (the create request is issued) exactly when
\* none of firstName, lastName, email fails its rule, and the errors map it
\* leaves holds a message for exactly the failing fields: a passing field has
\* no entry, whatever it had before, and businessName never has one.
C11_ValidateReplacesErrors ==
  last.op = "submit" =>
    /\ DOMAIN errors = Failing(newCustomer)
    /\ Shown(errors) = Failing(newCustomer)
    /\ "businessName" \notin DOMAIN errors
    /\ (requests # {}) <=> (Failing(newCustomer) = {})
    /\ ("fetch" \in {last.calls[i] : i \in 1..Len(last.calls)})
         <=> (Failing(newCustomer) = {})

\* C11's case: a Draft whose names pass and whose email fails was submitted;
\* only the email has an entry.
C11_Witness ==
  /\ last.op = "submit"
  /\ newCustomer.firstName = <<"D">>
  /\ newCustomer.lastName = <<"a", "Z">>
  /\ newCustomer.email = <<"j", "@", "d">>
  /\ newCustomer.businessName = <<"A", " ", "1">>
  /\ DOMAIN errors = {"email"}
  /\ requests = {}

\* C12: a first or last name holding a digit, a space or a symbol fails with
\* the "only letters" message; a non-empty name of letters A-Z, a-z passes.
C12_NamesOnlyLetters ==
  last.op = "submit" =>
    \A f \in {"firstName", "lastName"} :
      LET s == newCustomer[f] IN
      /\ (\E i \in 1..Len(s) : s[i] \notin Upper \cup Lower)
           => Entry(errors, f) = OnlyLettersMessage(f)
      /\ (s # << >> /\ \A i \in 1..Len(s) : s[i] \in Upper \cup Lower)
           => f \notin DOMAIN errors

\* C12's case: a first name with a space between two letters fails, beside a
\* last name of one letter, which passes.
C12_Witness ==
  /\ last.op = "submit"
  /\ newCustomer.firstName = <<"a", " ", "Z">>
  /\ errors.firstName = OnlyLettersMessage("firstName")
  /\ newCustomer.lastName = <<"D">>
  /\ "lastName" \notin DOMAIN errors

\* The string has exactly one "@", and a "." somewhere after it.
OneAtThenDot(s) ==
  /\ Cardinality({i \in 1..Len(s) : s[i] = "@"}) = 1
  /\ \E i \in 1..Len(s) : \E j \in 1..Len(s) : i < j /\ s[i] = "@" /\ s[j] = "."

\* What C13 says of the three addresses it names.
EmailExamples ==
  /\ newCustomer.email = UserAtExampleCom => "email" \notin DOMAIN errors
  /\ newCustomer.email = UserAtExample
       => Entry(errors, "email") = ValidEmailMessage
  /\ newCustomer.email = UserExampleCom
       => Entry(errors, "email") = ValidEmailMessage

\* C13 as stated: every email without exactly one "@" followed by a "." fails
\* with the "valid email" message; "user@example.com" passes, "user@example"
\* and "user example.com" fail.
C13_EmailShape ==
  last.op = "submit" =>
    /\ ~OneAtThenDot(newCustomer.email)
         => Entry(errors, "email") = ValidEmailMessage
    /\ EmailExamples

\* C13 as amended: every non-empty email without exactly one "@" followed by a
\* "." fails with the "valid email" message; the three addresses as stated.
C13_NonEmptyEmailShape ==
  last.op = "submit" =>
    /\ (newCustomer.email # << >> /\ ~OneAtThenDot(newCustomer.email))
         => Entry(errors, "email") = ValidEmailMessage
    /\ EmailExamples

\* C13's case: an email with two "@" before its "." was submitted and fails.
C13_Witness ==
  /\ last.op = "submit"
  /\ newCustomer.email = <<"a", "@", "@", ".", "a">>
  /\ errors.email = ValidEmailMessage

\* C14: an empty firstName, lastName or email fails with the field's
\* "required" message, not with its format message.
C14_EmptyIsRequired ==
  last.op = "submit" =>
    \A f \in {"firstName", "lastName", "email"} :
      newCustomer[f] = << >> =>
        /\ Entry(errors, f) = RequiredMessage(f)
        /\ Entry(errors, f) # ValidEmailMessage
        /\ f # "email" => Entry(errors, f) # OnlyLettersMessage(f)

\* C14's case: the three fields were submitted empty.
C14_Witness ==
  /\ last.op = "submit"
  /\ \A f \in {"firstName", "lastName", "email"} :
       newCustomer[f] = << >> /\ errors[f] = RequiredMessage(f)

---------------------------------------------------------------------------
(* close() twice *)

\* C15: calling close() twice in a row has the same effect as calling it once:
\* a close() that follows a close() changes nothing, neither the dialog, the
\* Draft, the errors and the submit error, nor the requests in flight and the
\* counters.
C15_CloseTwiceIsCloseOnce ==
  [][(last.op = "close" /\ last'.op = "close") =>
       /\ form' = form
       /\ requests' = requests
       /\ <<isSubmitting, created, succeeded, mutateCalls>>'
            = <<isSubmitting, created, succeeded, mutateCalls>>]_vars

\* C15's case: close() ran with two create requests in flight, and close() can
\* run again from here.
C15_Witness ==
  /\ last.op = "close"
  /\ Cardinality(requests) = 2
  /\ ENABLED Close

---------------------------------------------------------------------------
(* The customer list: the fetcher given to useSWR, and the rows of the table *)

\* The longest customer list a response carries here.
MaxCustomers == 2

Jane == <<"J", "a", "n", "e">>
Doe == <<"D", "o", "e">>
Acme == <<"A", "c", "m", "e">>

\* The customers a response may list. businessName is optional: absent, the
\* empty string, or a name.
Customers ==
  [firstName : {Jane}, lastName : {Doe},
   email : {<<"j", "@", "d", ".", "c">>, <<"a", "@", "b", ".", "c">>},
   businessName : {Null, Some(<< >>), Some(Acme)}]

\* The bodies of a response to GET /api/customers: an array of customers, an
\* object with a message, text that is not JSON.
ListBodies ==
  {[json |-> "array", customers |-> cs, message |-> Null] :
     cs \in UNION {[1..k -> Customers] : k \in 0..MaxCustomers}}
  \cup {[json |-> "object", customers |-> << >>,
         message |-> Some("Internal Server Error")],
        [json |-> "invalid", customers |-> << >>, message |-> Null]}

Responses == [ok : BOOLEAN, body : ListBodies]

\* getDisplayName with ?? for ||: a businessName that is defined is shown.
getDisplayNameNullish(customer) ==
  IF customer.businessName # Null
  THEN customer.businessName[1]
  ELSE customer.firstName \o <<" ">> \o customer.lastName

\* customer.businessName || `${customer.firstName} ${customer.lastName}`:
\* undefined and '' are falsy.
getDisplayName(customer) ==
  IF customer.businessName # Null /\ Len(customer.businessName[1]) > 0
  THEN customer.businessName[1]
  ELSE customer.firstName \o <<" ">> \o customer.lastName

\* The fetcher without its test of response.ok.
fetcherIgnoresStatus(response) ==
  IF response.body.json = "invalid"
  THEN [returned |-> Null, thrown |-> Some(SyntaxError)]
  ELSE [returned |-> Some(response.body), thrown |-> Null]

\* The fetcher, once fetch(url) has resolved with `response`: await
\* response.json(), which rejects on a body that is not JSON; throw the body
\* if !response.ok; return the body.
fetcher(response) ==
  IF response.body.json = "invalid"
  THEN [returned |-> Null, thrown |-> Some(SyntaxError)]
  ELSE IF ~response.ok
       THEN [returned |-> Null, thrown |-> Some(response.body)]
       ELSE [returned |-> Some(response.body), thrown |-> Null]

\* What useSWR exposes once the fetcher has settled: the value returned
\* becomes data and clears error; the value thrown becomes error and the data
\* of before is kept.
settled(outcome) ==
  IF outcome.thrown = Null
  THEN [data |-> outcome.returned, error |-> Null]
  ELSE [data |-> swr.data, error |-> outcome.thrown]

\* data.map(customer => <TableRow> getDisplayName(customer), customer.email):
\* the rows of the table, when data is an array.
Rows ==
  IF swr.data # Null /\ swr.data[1].json = "array"
  THEN [i \in 1..Len(swr.data[1].customers) |->
          [name |-> getDisplayName(swr.data[1].customers[i]),
           email |-> swr.data[1].customers[i].email]]
  ELSE << >>

\* fetch('/api/customers') resolves and the fetcher settles.
ListFetchSettles ==
  \E response \in Responses :
    /\ swr' = settled(fetcher(response))
    /\ last' = Step("list", "", fetcher(response).returned, << >>,
                    <<response>>, fetcher(response).thrown,
                    <<"fetch", "json">>)
    /\ UNCHANGED <<form, requests, created, succeeded, mutateCalls>>

\* fetch('/api/customers') rejects: the fetcher throws what fetch threw.
ListFetchRejects ==
  \E err \in Rejections :
    /\ swr' = settled([returned |-> Null, thrown |-> Some(err)])
    /\ last' = Step("list", "", Null, << >>, << >>, Some(err), <<"fetch">>)
    /\ UNCHANGED <<form, requests, created, succeeded, mutateCalls>>

\* The page with its list fetched again and again.
SpecList == Init /\ [][ListFetchSettles \/ ListFetchRejects]_vars

\* C16: the name shown for a customer is its businessName when that is
\* non-empty, and otherwise firstName, one space and lastName; an absent
\* businessName is treated like an empty one.
C16_DisplayName ==
  \A i \in 1..Len(Rows) :
    LET c == swr.data[1].customers[i] IN
    /\ (c.businessName \notin {Null, Some(<< >>)})
         => Rows[i].name = c.businessName[1]
    /\ (c.businessName \in {Null, Some(<< >>)})
         => /\ Len(Rows[i].name) = Len(c.firstName) + 1 + Len(c.lastName)
            /\ SubSeq(Rows[i].name, 1, Len(c.firstName)) = c.firstName
            /\ Rows[i].name[Len(c.firstName) + 1] = " "
            /\ SubSeq(Rows[i].name, Len(c.firstName) + 2, Len(Rows[i].name))
                 = c.lastName

\* C16's case: the list shows a customer with an empty businessName as
\* "Jane Doe" and then one with businessName "Acme" as "Acme".
C16_Witness ==
  /\ Len(Rows) = 2
  /\ swr.data[1].customers[1].businessName = Some(<< >>)
  /\ Rows[1].name = <<"J", "a", "n", "e", " ", "D", "o", "e">>
  /\ swr.data[1].customers[2].businessName = Some(Acme)
  /\ Rows[2].name = Acme

\* The response the fetcher settled on last had a body that is JSON.
ListParsed ==
  /\ last.op = "list"
  /\ last.body # << >>
  /\ last.body[1].body.json # "invalid"

\* C17: the fetcher parses the body as JSON. On a status that is not success
\* it throws the parsed body and returns no data, and it has fetched once; on
\* success it returns the parsed body unchanged, which becomes the data, the
\* customers in the server's order.
C17_FetcherThrowsOrReturnsBody ==
  /\ ListParsed =>
       /\ last.calls = <<"fetch", "json">>
       /\ ~last.body[1].ok =>
            /\ last.thrown = Some(last.body[1].body)
            /\ last.value = Null
            /\ swr.error = Some(last.body[1].body)
       /\ last.body[1].ok =>
            /\ last.value = Some(last.body[1].body)
            /\ last.thrown = Null
            /\ swr.data = Some(last.body[1].body)
            /\ Len(Rows) = Len(last.body[1].body.customers)
            /\ \A i \in 1..Len(Rows) :
                 Rows[i].email = last.body[1].body.customers[i].email

\* C17's case: a list of two customers was shown and the next response, with a
\* status that is not success and a message, was thrown: the list stays.
C17_Witness ==
  /\ ListParsed
  /\ ~last.body[1].ok
  /\ last.body[1].body.json = "object"
  /\ swr.error = Some(last.body[1].body)
  /\ Len(Rows) = 2
  /\ Rows[1].email # Rows[2].email

---------------------------------------------------------------------------
(* Submissions that resolve *)

\* Every create request eventually resolves: an awaited fetch settles, and so
\* does an awaited response.json().
SpecFair ==
  /\ Spec
  /\ WF_vars(FetchResolvesOk \/ FetchResolvesNotOk \/ FetchRejects)
  /\ WF_vars(JsonSettles)

\* The steps in which a handleSubmit call ends with a failure.
Failures == {"failed", "threw", "rejected"}

\* Each create request in flight is eventually over, and Submitting is
\* eventually left.
SubmitLeavesSubmitting ==
  /\ \A id \in 1..MaxSubmits :
       (\E r \in requests : r.id = id) ~> ~(\E r \in requests : r.id = id)
  /\ isSubmitting ~> ~isSubmitting

\* Each of the three outcomes sets the Submitting flag to false, whether the
\* request saw the dialog closed or not.
OutcomeClearsFlag ==
  [][last'.op \in Failures \cup {"success"} => ~isSubmitting']_vars

\* A success ends with the dialog closed.
SuccessEndsClosed ==
  [][last'.op = "success" => ~open']_vars

\* A failure ends in Editing, the dialog open, with a submit-level error.
FailureEndsEditingWithError ==
  [][last'.op \in Failures => open' /\ submitError' # Null]_vars

\* C18: if every create request eventually resolves, every submit that enters
\* Submitting eventually leaves it; the flag is false after each of the three
\* outcomes, whether or not the dialog was closed meanwhile; the controller
\* ends Closed on success and in Editing with a submit-level error on failure.
C18_SubmitEndsClosedOrEditing ==
  /\ SubmitLeavesSubmitting
  /\ OutcomeClearsFlag
  /\ SuccessEndsClosed
  /\ FailureEndsEditingWithError

---------------------------------------------------------------------------
(* Requests that outlive the dialog session they were issued in *)

\* C19: whenever the dialog is closed, the Draft is all-empty strings, the
\* errors map is empty and the submit error is null; stated here for the case
\* the claim names, the closed states reached when a create request that was
\* in flight at close() resolves with a failure before the dialog is reopened.
C19_ClosedIsResetAfterFailure ==
  (/\ ~open
   /\ last.op \in Failures
   /\ last.req[1].closed
   /\ ~last.req[1].reopened)
    => /\ newCustomer = EmptyDraft
       /\ errors = NoErrors
       /\ submitError = Null

\* C20: when a create request issued in an earlier session of the dialog (the
\* dialog was closed and reopened while it was in flight) resolves, the open
\* dialog stays open, and its Draft and its submit error are as they were.
C20_StaleResolutionKeepsSession ==
  [][(/\ open
      /\ last'.op \in Failures \cup {"success"}
      /\ last'.req[1].reopened)
       => /\ open' = open
          /\ newCustomer' = newCustomer
          /\ submitError' = submitError]_vars

====
